---- MODULE Spec2Model ----
(***************************************************************************)
(* Locality Corner admin console (client/LocalityCorner/Localitycorner.js) *)
(* and the sidebar widget.  The script file holds two definitions of every *)
(* function (lines 1-304 and lines 305-645); `version` says which of the   *)
(* two is the running one.  Every await of the script is a message in      *)
(* `net`: the handler's first half sends it, the continuation runs when    *)
(* the response is delivered.  The backend REST service is not part of the *)
(* script; it is modelled from the API contract of the specification.      *)
(***************************************************************************)
EXTENDS Integers, FiniteSets, Sequences, Bags, TLC

\* ---------------------------------------------------------------- bounds
MaxInFlight == 3        \* requests that may be outstanding at once
MaxOps == 4             \* operator actions (clicks, key strokes) in a session

\* ------------------------------------------------------- modelling values
Addresses == 1..3       \* ids of the address records the backend holds
NoRow == 0              \* null (editingRowId / currentPendingItem)
NoCount == -1           \* the pending counter before anything was displayed
PageSize == 2           \* rows per page served by the backend
BaseLocs == {[name |-> "L1", zone |-> "Z1", km |-> 5]}   \* master list at start
Dash == -1              \* the text "-" in a distance preview
NewNames == {"", "L2"}  \* what the operator may type as a new locality name
Queries == {"", "m"}    \* search texts
Hits == {2, 3}          \* addresses whose text contains "m"
Versions == {1, 2}
\* the pending queues the backend may hold when the page loads
InitPending == {{}, {1, 2}, {1, 2, 3}}

\* ----------------------------------------------------------- conversions
\* `${row.id}` in a template literal: the decimal digits of the number.
RECURSIVE ToStr(_)
ToStr(n) == IF n < 10 THEN <<n>> ELSE ToStr(n \div 10) \o <<n % 10>>

\* parseInt(chk.value) of a digit string.
RECURSIVE parseInt(_)
parseInt(s) ==
    IF Len(s) = 1 THEN s[1]
    ELSE 10 * parseInt(SubSeq(s, 1, Len(s) - 1)) + s[Len(s)]

\* ------------------------------------------------ backend (API contract)
Match(q, a) == q = "" \/ a \in Hits

Rank(a, S) == Cardinality({b \in S : b <= a})

PageOf(S, page) ==
    {a \in S : Rank(a, S) > (page - 1) * PageSize /\ Rank(a, S) <= page * PageSize}

Pages(n) == IF n = 0 THEN 1 ELSE (n + PageSize - 1) \div PageSize

Pending(m) == {a \in Addresses : m[a] = ""}

\* GET /localities/?page=&search=
listAddresses(m, page, q) ==
    LET S == {a \in Addresses : Match(q, a)} IN
    [rows  |-> {[id |-> a, locality |-> m[a]] : a \in PageOf(S, page)},
     total |-> Pages(Cardinality(S)),
     pend  |-> Cardinality(Pending(m))]

\* GET /next-pending/
nextPendingAddress(m) ==
    IF Pending(m) = {} THEN NoRow
    ELSE CHOOSE a \in Pending(m) : \A b \in Pending(m) : a <= b

\* GET /search-pending/?q=&page=
searchPendingAddresses(m, q, page) ==
    LET S == {a \in Pending(m) : Match(q, a)} IN
    [rows |-> PageOf(S, page), total |-> Cardinality(S)]

\* ------------------------------------------------------------------ state
VARIABLES
    version,            \* which of the two definitions of each function runs
    \* script globals
    masterLocalities, currentPage, totalPages, editingRowId,
    currentPendingItem, bulkSelection,
    \* document
    viewSearch,         \* #viewSearch text
    viewTable,          \* #viewTableBody: rows [id, locality, editing]
    editOpts,           \* option values of the rendered edit select
    globalPendingCount, \* #globalPendingCount
    dropOpts,           \* options of #singleLocalitySelect, #bulkLocalitySelect
    singleSel,          \* #singleLocalitySelect value
    bulkSel,            \* #bulkLocalitySelect value
    pendingCard,        \* #pendingCard visible (and #noPendingMsg hidden)
    previewZone,        \* #previewZone text
    previewKM,          \* #previewKM text
    bulkSearch,         \* #bulkSearch text
    bulkRows,           \* checkbox values rendered in #bulkTableBody
    bulkChecked,        \* the checked ones
    bulkSelectAll,      \* #bulkSelectAll checked
    bulkCount,          \* #bulkCount
    newLocName,         \* #newLocName
    newLocZone,         \* #newLocZone value
    zoneOpts,           \* options of #newLocZone
    activeTab,          \* the tab carrying class "active"
    setMode,            \* the set-tab mode shown
    sidebarOpen,        \* #sidebar-container carries class "open"
    overlayActive,      \* #sidebar-overlay carries class "active"
    \* environment
    net,                \* bag of requests / responses in flight
    mapping,            \* backend: address -> locality name ("" = pending)
    srvMasters,         \* backend: master localities
    ev,                 \* the handler step taken last
    ops,                \* operator actions so far
    commit,             \* history: the state the last single commit started from
    added,              \* history: names addNewMaster was told were added
    saved               \* history: addresses saveSinglePending was told were saved

globals == <<masterLocalities, currentPage, totalPages, editingRowId,
             currentPendingItem, bulkSelection>>
viewDom == <<viewSearch, viewTable, editOpts, globalPendingCount>>
singleDom == <<singleSel, pendingCard, previewZone, previewKM>>
bulkDom == <<bulkSel, bulkSearch, bulkRows, bulkChecked, bulkSelectAll,
            bulkCount>>
addDom == <<newLocName, newLocZone, zoneOpts>>
sidebarDom == <<sidebarOpen, overlayActive>>
navDom == <<activeTab, setMode, sidebarDom>>
backend == <<mapping, srvMasters>>
fixed == <<version, commit, added, saved>>
vars == <<version, globals, viewDom, dropOpts, singleDom, bulkDom, addDom,
          navDom, net, backend, ev, ops, commit, added, saved>>

\* ------------------------------------------------------------- messages
Msg(cont, page, q, addr, ids, loc, zone) ==
    [cont |-> cont, page |-> page, q |-> q, addr |-> addr, ids |-> ids,
     loc |-> loc, zone |-> zone,
     stage |-> "req", out |-> "", rows |-> {}, hits |-> {}, total |-> 0,
     pend |-> 0, item |-> NoRow, masters |-> {}]

InFlight == BagCardinality(net)
Send(ms) == net' = net (+) ms
Reply(m, ms) == net' = (net (-) SetToBag({m})) (+) ms
One(m) == SetToBag({m})
Room(k) == InFlight + k <= MaxInFlight

\* ev: the handler (or continuation) that ran last, its argument, a datum
\* of the state it started from, the value it read or the outcome it was
\* handed, and the alert it raised ("" = none).
EvX(op, arg, was, val, alert) ==
    [op |-> op, arg |-> arg, was |-> was, val |-> val, alert |-> alert]
Ev(op, arg, alert) == EvX(op, arg, 0, "", alert)

\* commit: what the single-assign scenario needs of the state a commit
\* starts from (set by saveSinglePending, read by no handler).
NoCommit == [addr |-> NoRow, head |-> NoRow, next |-> NoRow, cnt |-> NoCount,
             pend |-> 0, quiet |-> FALSE, at |-> 0]

\* one more operator action
Tick == ops < MaxOps /\ ops' = ops + 1

\* fetchTableData and fetchBulkData read their search box when called.
ListReq(page) == Msg("fetchTableData", page, viewSearch, NoRow, {}, "", "")
CounterReq == Msg("counter", 1, "", NoRow, {}, "", "")
MasterReq == Msg("fetchMasterDropdown", 0, "", NoRow, {}, "", "")
NextReq == Msg("fetchNextPending", 0, "", NoRow, {}, "", "")
BulkReq(page) == Msg("fetchBulkData", page, bulkSearch, NoRow, {}, "", "")
SaveReq(cont, addr, loc) == Msg(cont, 0, "", addr, {}, loc, "")
BulkSaveReq(ids, loc) == Msg("saveBulk", 0, "", NoRow, ids, loc, "")
AddReq(name, zone) == Msg("addNewMaster", 0, "", NoRow, {}, name, zone)

\* What a delivery may hand to the awaiting handler: the response the
\* backend produced, or a rejected fetch promise (transport failure, before
\* or after the backend acted).
Outcomes(m) == {"neterr"} \cup (IF m.stage = "resp" THEN {m.out} ELSE {})

Names(ms) == {l.name : l \in ms}
Zones(ms) == {l.zone : l \in ms} \ {""}

\* ---------------------------------------------------------------- Init
\* The state when the DOMContentLoaded handler has returned: both fetches
\* are issued, switchTab('view') has run.
Init ==
    /\ version \in Versions
    /\ masterLocalities = {}
    /\ currentPage = 1
    /\ totalPages = 1
    /\ editingRowId = NoRow
    /\ currentPendingItem = NoRow
    /\ bulkSelection = {}
    /\ viewSearch = ""
    /\ viewTable = {}
    /\ editOpts = {}
    /\ globalPendingCount = NoCount
    /\ dropOpts = {}
    /\ singleSel = ""
    /\ bulkSel = ""
    /\ pendingCard = FALSE
    /\ previewZone = "-"
    /\ previewKM = Dash
    /\ bulkSearch = ""
    /\ bulkRows = {}
    /\ bulkChecked = {}
    /\ bulkSelectAll = FALSE
    /\ bulkCount = 0
    /\ newLocName = ""
    /\ newLocZone = ""
    /\ zoneOpts = {}
    /\ activeTab = "view"
    /\ setMode = "single"
    /\ sidebarOpen = FALSE
    /\ overlayActive = FALSE
    /\ net = One(MasterReq) (+) One(ListReq(1))
    /\ mapping \in {[a \in Addresses |-> IF a \in P THEN "" ELSE "L1"] :
                        P \in InitPending}
    /\ srvMasters = BaseLocs
    /\ ev = Ev("DOMContentLoaded", 0, "")
    /\ ops = 0
    /\ commit = NoCommit
    /\ added = {}
    /\ saved = {}

\* ------------------------------------------------------------- postData
\* The alert postData raises for an outcome ("" = none) and what it returns.
\*   ok     : 2xx, {success: true}
\*   reject : 2xx, {success: false, error}
\*   http   : non-2xx, {detail}
\*   neterr : fetch or res.json() rejected
postDataAlert(o) ==
    IF o = "neterr" THEN "Network Error"
    ELSE IF version = 1
         THEN (IF o = "ok" THEN ""
               ELSE IF o = "reject" THEN "Error: error" ELSE "Error: undefined")
         ELSE (IF o = "http" THEN "Error: detail" ELSE "")

postData(o) == o = "ok"

\* a bug: a post that failed is sent again
resendOnFailure_again(m) == One([m EXCEPT !.stage = "req", !.out = ""])

\* What a handler sends when its post did not succeed: postData returns
\* false (saveBulk's fetch throws, or data.success is not set) and the
\* handler ends.
resendOnFailure(m) == EmptyBag

\* ------------------------------------------------------------- view tab
\* a bug: tests that some row is being edited, not that this one is
isEditing_anyRow(id) == editingRowId # NoRow

isEditing(id) == editingRowId = id

\* a bug: a guard against late responses that keeps the first table drawn
renderTable_firstWins(rows) ==
    IF viewTable = {}
    THEN /\ viewTable' = {[id |-> r.id, locality |-> r.locality,
                           editing |-> isEditing(r.id)] : r \in rows}
         /\ editOpts' = IF \E r \in rows : isEditing(r.id)
                        THEN Names(masterLocalities) ELSE {}
    ELSE UNCHANGED <<viewTable, editOpts>>

renderTable(rows) ==
    /\ viewTable' = {[id |-> r.id, locality |-> r.locality,
                      editing |-> isEditing(r.id)] : r \in rows}
    /\ editOpts' = IF \E r \in rows : isEditing(r.id)
                   THEN Names(masterLocalities) ELSE {}

\* fetchTableData after its await
fetchTableDataDone(m, o) ==
    /\ UNCHANGED ops
    /\ m.cont = "fetchTableData"
    /\ Reply(m, EmptyBag)
    /\ ev' = EvX("fetchTableData.done", m.page, 0, o, "")
    /\ IF o = "ok"
       THEN /\ renderTable(m.rows)
            /\ currentPage' = m.page
            /\ totalPages' = m.total
            /\ globalPendingCount' = m.pend
       ELSE UNCHANGED <<viewTable, editOpts, currentPage, totalPages,
                        globalPendingCount>>
    /\ UNCHANGED <<fixed, masterLocalities, editingRowId, currentPendingItem,
                   bulkSelection, viewSearch, dropOpts, singleDom, bulkDom,
                   addDom, navDom, backend>>

\* a bug: the lower bound is off by one
changePageOk_zero(newPage) == newPage >= 0 /\ newPage <= totalPages

changePageOk(newPage) == newPage > 0 /\ newPage <= totalPages

changePage(delta) ==
    /\ Tick
    /\ IF changePageOk(currentPage + delta)
       THEN Room(1) /\ Send(One(ListReq(currentPage + delta)))
       ELSE UNCHANGED net
    /\ ev' = Ev("changePage", delta, "")
    /\ UNCHANGED <<fixed, globals, viewDom, dropOpts, singleDom, bulkDom,
                   addDom, navDom, backend>>

startEdit(id) ==
    /\ Tick
    /\ \E r \in viewTable : r.id = id /\ ~r.editing
    /\ Room(1)
    /\ editingRowId' = id
    /\ Send(One(ListReq(currentPage)))
    /\ ev' = EvX("startEdit", id, editingRowId, "", "")
    /\ UNCHANGED <<fixed, masterLocalities, currentPage, totalPages,
                   currentPendingItem, bulkSelection, viewDom, dropOpts,
                   singleDom, bulkDom, addDom, navDom, backend>>

cancelEdit ==
    /\ Tick
    /\ \E r \in viewTable : r.editing
    /\ Room(1)
    /\ editingRowId' = NoRow
    /\ Send(One(ListReq(currentPage)))
    /\ ev' = Ev("cancelEdit", 0, "")
    /\ UNCHANGED <<fixed, masterLocalities, currentPage, totalPages,
                   currentPendingItem, bulkSelection, viewDom, dropOpts,
                   singleDom, bulkDom, addDom, navDom, backend>>

\* The values the rendered edit select can hold: the first definition
\* renders the cache entries only, the second adds an empty default option.
EditValues ==
    IF version = 1 THEN (IF editOpts = {} THEN {""} ELSE editOpts)
    ELSE {""} \cup editOpts

saveEditAlert == IF version = 1 THEN "" ELSE "Please select a locality"

saveEdit(id, v) ==
    /\ Tick
    /\ \E r \in viewTable : r.id = id /\ r.editing
    /\ v \in EditValues
    /\ IF v = ""
       THEN /\ UNCHANGED net
            /\ ev' = EvX("saveEdit", id, 0, v, saveEditAlert)
       ELSE /\ Room(1)
            /\ Send(One(SaveReq("saveEdit", id, v)))
            /\ ev' = EvX("saveEdit", id, 0, v, "")
    /\ UNCHANGED <<fixed, globals, viewDom, dropOpts, singleDom, bulkDom,
                   addDom, navDom, backend>>

\* a bug: the row stays in Editing and nothing is reloaded
saveEditReloads_never(success) == FALSE

\* Does saveEdit leave editing and reload once postData has returned?
saveEditReloads(success) == version = 1 \/ success

saveEditDone(m, o) ==
    /\ UNCHANGED ops
    /\ m.cont = "saveEdit"
    /\ ev' = EvX("saveEdit.done", m.addr, 0, o, postDataAlert(o))
    /\ IF saveEditReloads(postData(o))
       THEN /\ editingRowId' = NoRow
            /\ Reply(m, One(ListReq(currentPage)))
       ELSE /\ UNCHANGED editingRowId
            /\ Reply(m, resendOnFailure(m))
    /\ UNCHANGED <<fixed, masterLocalities, currentPage, totalPages,
                   currentPendingItem, bulkSelection, viewDom, dropOpts,
                   singleDom, bulkDom, addDom, navDom, backend>>

\* the operator edits #viewSearch
typeViewSearch(q) ==
    /\ Tick
    /\ q \in Queries
    /\ q # viewSearch
    /\ viewSearch' = q
    /\ ev' = Ev("typeViewSearch", 0, "")
    /\ UNCHANGED <<fixed, globals, viewTable, editOpts, globalPendingCount,
                   dropOpts, singleDom, bulkDom, addDom, navDom, net, backend>>

\* ------------------------------------------------------ single-assign mode
fetchNextPendingDone(m, o) ==
    /\ UNCHANGED ops
    /\ m.cont = "fetchNextPending"
    /\ Reply(m, EmptyBag)
    /\ ev' = EvX("fetchNextPending.done", m.item, 0, o, "")
    /\ IF o = "ok"
       THEN IF m.item # NoRow
            THEN /\ currentPendingItem' = m.item
                 /\ pendingCard' = TRUE
                 /\ singleSel' = ""
                 /\ previewZone' = "-"
                 /\ previewKM' = Dash
            ELSE /\ currentPendingItem' = NoRow
                 /\ pendingCard' = FALSE
                 /\ UNCHANGED <<singleSel, previewZone, previewKM>>
       ELSE UNCHANGED <<currentPendingItem, singleDom>>
    /\ UNCHANGED <<fixed, masterLocalities, currentPage, totalPages,
                   editingRowId, bulkSelection, viewDom, dropOpts, bulkDom,
                   addDom, navDom, backend>>

selectSingleLocality(v) ==
    /\ Tick
    /\ v \in {""} \cup dropOpts
    /\ v # singleSel
    /\ singleSel' = v
    /\ ev' = Ev("selectSingleLocality", 0, "")
    /\ UNCHANGED <<fixed, globals, viewDom, dropOpts, pendingCard,
                   previewZone, previewKM, bulkDom, addDom, navDom, net, backend>>

\* a bug: the zone of the entry is never shown
ZoneText_dash(l) == "-"

\* loc.zone || "-" and loc.km || loc.billing_km || "-" of the second
\* definition; the first shows the fields as they are.
ZoneText(l) == IF version = 2 /\ l.zone = "" THEN "-" ELSE l.zone
KmText(l) == IF version = 2 /\ l.km = 0 THEN Dash ELSE l.km

updatePreview ==
    /\ Tick
    /\ IF \E l \in masterLocalities : l.name = singleSel
       THEN LET loc == CHOOSE l \in masterLocalities : l.name = singleSel IN
            /\ previewZone' = ZoneText(loc)
            /\ previewKM' = KmText(loc)
       ELSE /\ previewZone' = "-"
            /\ previewKM' = Dash
    /\ ev' = Ev("updatePreview", 0, "")
    /\ UNCHANGED <<fixed, globals, viewDom, dropOpts, singleSel, pendingCard,
                   bulkDom, addDom, navDom, net, backend>>

\* The address committed, the head of the backend's pending queue and the
\* pending address behind the committed one, the counter shown and the true
\* count, whether any request was in flight, and the number of the operator
\* action.
CommitOf(a) ==
    [addr |-> a,
     head |-> nextPendingAddress(mapping),
     next |-> nextPendingAddress([mapping EXCEPT ![a] = singleSel]),
     cnt |-> globalPendingCount, pend |-> Cardinality(Pending(mapping)),
     quiet |-> net = EmptyBag, at |-> ops + 1]

\* a bug: the locality is not looked at
saveSinglePendingInvalid_itemOnly == currentPendingItem = NoRow

\* !currentPendingItem || !locId
saveSinglePendingInvalid == currentPendingItem = NoRow \/ singleSel = ""

saveSinglePending ==
    /\ Tick
    /\ IF saveSinglePendingInvalid
       THEN /\ UNCHANGED <<net, commit>>
            /\ ev' = Ev("saveSinglePending", currentPendingItem, "Select a locality!")
       ELSE /\ Room(1)
            /\ Send(One(SaveReq("saveSinglePending", currentPendingItem, singleSel)))
            /\ ev' = Ev("saveSinglePending", currentPendingItem, "")
            /\ commit' = CommitOf(currentPendingItem)
    /\ UNCHANGED <<version, added, saved, globals, viewDom, dropOpts,
                   singleDom, bulkDom, addDom, navDom, backend>>

\* a bug: the next pending address is not loaded
saveSinglePendingFollowUp_noNext ==
    One(CounterReq) (+) (IF version = 2 THEN One(ListReq(1)) ELSE EmptyBag)

\* What a successful saveSinglePending issues before its second await.
saveSinglePendingFollowUp ==
    One(NextReq) (+) One(CounterReq)
        (+) (IF version = 2 THEN One(ListReq(1)) ELSE EmptyBag)

saveSinglePendingDone(m, o) ==
    /\ UNCHANGED ops
    /\ m.cont = "saveSinglePending"
    /\ ev' = EvX("saveSinglePending.done", m.addr, 0, o, postDataAlert(o))
    /\ IF postData(o)
       THEN /\ BagCardinality(saveSinglePendingFollowUp) + InFlight - 1
                   <= MaxInFlight
            /\ Reply(m, saveSinglePendingFollowUp)
            /\ saved' = saved \cup {m.addr}
       ELSE /\ Reply(m, resendOnFailure(m))
            /\ UNCHANGED saved
    /\ UNCHANGED <<version, commit, added, globals, viewDom, dropOpts,
                   singleDom, bulkDom, addDom, navDom, backend>>

\* the pending-count refresh at the end of saveSinglePending
counterDone(m, o) ==
    /\ UNCHANGED ops
    /\ m.cont = "counter"
    /\ Reply(m, EmptyBag)
    /\ ev' = EvX("saveSinglePending.count", 0, 0, o, "")
    /\ globalPendingCount' = IF o = "ok" THEN m.pend ELSE globalPendingCount
    /\ UNCHANGED <<fixed, globals, viewSearch, viewTable, editOpts, dropOpts,
                   singleDom, bulkDom, addDom, navDom, backend>>

\* -------------------------------------------------------------- bulk mode
\* What updateBulkSet puts in / takes out of bulkSelection for a checkbox:
\* chk.value (first definition) or parseInt(chk.value) (second).
updateBulkKey(value) == IF version = 1 THEN value ELSE parseInt(value)

\* a bug: the selection is left as it was
fetchBulkDataClears_kept(sel) == sel

\* bulkSelection.clear() at the end of fetchBulkData
fetchBulkDataClears(sel) == {}

fetchBulkDataDone(m, o) ==
    /\ UNCHANGED ops
    /\ m.cont = "fetchBulkData"
    /\ Reply(m, EmptyBag)
    /\ ev' = EvX("fetchBulkData.done", m.page, Cardinality(bulkSelection), o, "")
    /\ IF o = "ok"
       THEN /\ bulkCount' = m.total
            /\ bulkRows' = {ToStr(a) : a \in m.hits}
            /\ bulkChecked' = {}
            /\ bulkSelection' = fetchBulkDataClears(bulkSelection)
       ELSE UNCHANGED <<bulkCount, bulkRows, bulkChecked, bulkSelection>>
    /\ UNCHANGED <<fixed, masterLocalities, currentPage, totalPages,
                   editingRowId, currentPendingItem, viewDom, dropOpts,
                   singleDom, bulkSel, bulkSearch, bulkSelectAll, addDom,
                   navDom, backend>>

\* a bug: an unchecked box is not taken out
updateBulkSet_addOnly(sel, value, checked) ==
    IF checked THEN sel \cup {updateBulkKey(value)} ELSE sel

updateBulkSet(sel, value, checked) ==
    IF checked THEN sel \cup {updateBulkKey(value)}
    ELSE sel \ {updateBulkKey(value)}

\* the operator clicks the checkbox of one row
clickBulkChk(c) ==
    /\ Tick
    /\ c \in bulkRows
    /\ bulkChecked' = IF c \in bulkChecked THEN bulkChecked \ {c}
                      ELSE bulkChecked \cup {c}
    /\ bulkSelection' = updateBulkSet(bulkSelection, c, c \notin bulkChecked)
    /\ ev' = Ev("updateBulkSet", 0, "")
    /\ UNCHANGED <<fixed, masterLocalities, currentPage, totalPages,
                   editingRowId, currentPendingItem, viewDom, dropOpts,
                   singleDom, bulkSel, bulkSearch, bulkRows, bulkSelectAll,
                   bulkCount, addDom, navDom, net, backend>>

RECURSIVE toggleAllSel(_, _, _)
toggleAllSel(sel, chks, checked) ==
    IF chks = {} THEN sel
    ELSE LET c == CHOOSE x \in chks : TRUE IN
         toggleAllSel(updateBulkSet(sel, c, checked), chks \ {c}, checked)

\* the operator clicks #bulkSelectAll, whose onchange is toggleAllBulk
toggleAllBulk ==
    /\ Tick
    /\ bulkSelectAll' = ~bulkSelectAll
    /\ bulkChecked' = IF bulkSelectAll' THEN bulkRows ELSE {}
    /\ bulkSelection' = toggleAllSel(bulkSelection, bulkRows, bulkSelectAll')
    /\ ev' = EvX("toggleAllBulk", 0, Cardinality(bulkSelection), "", "")
    /\ UNCHANGED <<fixed, masterLocalities, currentPage, totalPages,
                   editingRowId, currentPendingItem, viewDom, dropOpts,
                   singleDom, bulkSel, bulkSearch, bulkRows, bulkCount,
                   addDom, navDom, net, backend>>

selectBulkLocality(v) ==
    /\ Tick
    /\ v \in {""} \cup dropOpts
    /\ v # bulkSel
    /\ bulkSel' = v
    /\ ev' = Ev("selectBulkLocality", 0, "")
    /\ UNCHANGED <<fixed, globals, viewDom, dropOpts, singleDom, bulkSearch,
                   bulkRows, bulkChecked, bulkSelectAll, bulkCount, addDom,
                   navDom, net, backend>>

\* the operator edits #bulkSearch
typeBulkSearch(q) ==
    /\ Tick
    /\ q \in Queries
    /\ q # bulkSearch
    /\ bulkSearch' = q
    /\ ev' = Ev("typeBulkSearch", 0, "")
    /\ UNCHANGED <<fixed, globals, viewDom, dropOpts, singleDom, bulkSel,
                   bulkRows, bulkChecked, bulkSelectAll, bulkCount, addDom,
                   navDom, net, backend>>

\* a bug: && in place of ||
saveBulkInvalid_both == bulkSelection = {} /\ bulkSel = ""

\* ids.length === 0 || !locId
saveBulkInvalid == bulkSelection = {} \/ bulkSel = ""

saveBulkIds == bulkSelection

saveBulk ==
    /\ Tick
    /\ IF saveBulkInvalid
       THEN /\ UNCHANGED net
            /\ ev' = Ev("saveBulk", 0, "Select addresses and locality!")
       ELSE /\ Room(1)
            /\ Send(One(BulkSaveReq(saveBulkIds, bulkSel)))
            /\ ev' = Ev("saveBulk", 0, "")
    /\ UNCHANGED <<fixed, globals, viewDom, dropOpts, singleDom, bulkDom,
                   addDom, navDom, backend>>

\* a bug: the view tab is not refreshed
saveBulkFollowUp_noTable == One(BulkReq(1))

\* What a successful saveBulk issues: fetchBulkData(1); fetchTableData(1).
saveBulkFollowUp == One(BulkReq(1)) (+) One(ListReq(1))

\* saveBulk calls fetch itself: a rejected promise ends the handler, and
\* only data.success is looked at.
saveBulkDone(m, o) ==
    /\ UNCHANGED ops
    /\ m.cont = "saveBulk"
    /\ IF o = "ok"
       THEN /\ Room(1)
            /\ ev' = EvX("saveBulk.done", m.total, 0, o, "Updated count addresses!")
            /\ Reply(m, saveBulkFollowUp)
       ELSE /\ ev' = EvX("saveBulk.done", 0, 0, o, "")
            /\ Reply(m, resendOnFailure(m))
    /\ UNCHANGED <<fixed, globals, viewDom, dropOpts, singleDom, bulkDom,
                   addDom, navDom, backend>>

\* -------------------------------------------------------------- add master
typeNewLocName(v) ==
    /\ Tick
    /\ v \in NewNames
    /\ v # newLocName
    /\ newLocName' = v
    /\ ev' = Ev("typeNewLocName", 0, "")
    /\ UNCHANGED <<fixed, globals, viewDom, dropOpts, singleDom, bulkDom,
                   newLocZone, zoneOpts, navDom, net, backend>>

pickNewLocZone(z) ==
    /\ Tick
    /\ z \in {""} \cup zoneOpts
    /\ z # newLocZone
    /\ newLocZone' = z
    /\ ev' = Ev("pickNewLocZone", 0, "")
    /\ UNCHANGED <<fixed, globals, viewDom, dropOpts, singleDom, bulkDom,
                   newLocName, zoneOpts, navDom, net, backend>>

\* !name || !zone
addNewMasterInvalid == newLocName = "" \/ newLocZone = ""

addNewMaster ==
    /\ Tick
    /\ IF addNewMasterInvalid
       THEN /\ UNCHANGED net
            /\ ev' = Ev("addNewMaster", 0, "Enter Name and Zone")
       ELSE /\ Room(1)
            /\ Send(One(AddReq(newLocName, newLocZone)))
            /\ ev' = Ev("addNewMaster", 0, "")
    /\ UNCHANGED <<fixed, globals, viewDom, dropOpts, singleDom, bulkDom,
                   addDom, navDom, backend>>

addNewMasterDone(m, o) ==
    /\ UNCHANGED ops
    /\ m.cont = "addNewMaster"
    /\ IF postData(o)
       THEN /\ ev' = EvX("addNewMaster.done", 0, 0, o, "Locality Added Successfully!")
            /\ newLocName' = ""
            /\ newLocZone' = IF version = 1 THEN "" ELSE newLocZone
            /\ added' = added \cup {m.loc}
            /\ Reply(m, One(MasterReq))
       ELSE /\ ev' = EvX("addNewMaster.done", 0, 0, o, postDataAlert(o))
            /\ UNCHANGED <<newLocName, newLocZone, added>>
            /\ Reply(m, resendOnFailure(m))
    /\ UNCHANGED <<version, commit, saved, globals, viewDom, dropOpts,
                   singleDom, bulkDom,
                   zoneOpts, navDom, backend>>

\* populateDropdown twice, then the zone select is rebuilt; rebuilding a
\* select leaves its first (empty) option selected.
fetchMasterDropdownDone(m, o) ==
    /\ UNCHANGED ops
    /\ m.cont = "fetchMasterDropdown"
    /\ Reply(m, EmptyBag)
    /\ ev' = EvX("fetchMasterDropdown.done", 0, 0, o, "")
    /\ IF o = "ok"
       THEN /\ masterLocalities' = m.masters
            /\ dropOpts' = Names(m.masters)
            /\ singleSel' = ""
            /\ bulkSel' = ""
            /\ zoneOpts' = Zones(m.masters)
            /\ newLocZone' = ""
       ELSE UNCHANGED <<masterLocalities, dropOpts, singleSel, bulkSel,
                        zoneOpts, newLocZone>>
    /\ UNCHANGED <<fixed, currentPage, totalPages, editingRowId,
                   currentPendingItem, bulkSelection, viewDom, pendingCard,
                   previewZone, previewKM, bulkSearch, bulkRows, bulkChecked,
                   bulkSelectAll, bulkCount, newLocName, navDom, backend>>

\* -------------------------------------------------------------- navigation
Tabs == {"view", "set"}

switchTab(tabId) ==
    /\ Tick
    /\ tabId \in Tabs
    /\ activeTab' = tabId
    /\ IF tabId = "set" THEN Room(1) /\ Send(One(NextReq)) ELSE UNCHANGED net
    /\ ev' = Ev("switchTab", 0, "")
    /\ UNCHANGED <<fixed, globals, viewDom, dropOpts, singleDom, bulkDom,
                   addDom, setMode, sidebarDom, backend>>

setSetMode(mode) ==
    /\ Tick
    /\ mode \in {"single", "bulk"}
    /\ setMode' = mode
    /\ Room(1)
    /\ Send(One(IF mode = "bulk" THEN BulkReq(1) ELSE NextReq))
    /\ ev' = Ev("setSetMode", 0, "")
    /\ UNCHANGED <<fixed, globals, viewDom, dropOpts, singleDom, bulkDom,
                   addDom, activeTab, sidebarDom, backend>>

\* ----------------------------------------------------------- sidebar widget
\* a bug: classList.add in place of classList.toggle
classListToggle_add(has) == TRUE

\* classList.toggle(c) and classList.remove(c): does the element carry c
\* afterwards?
classListToggle(has) == ~has
classListRemove(has) == FALSE

\* click on #hamburger-btn
toggleSidebar ==
    /\ Tick
    /\ sidebarOpen' = classListToggle(sidebarOpen)
    /\ overlayActive' = classListToggle(overlayActive)
    /\ ev' = Ev("toggleSidebar", 0, "")
    /\ UNCHANGED <<fixed, globals, viewDom, dropOpts, singleDom, bulkDom,
                   addDom, activeTab, setMode, net, backend>>

\* click on #close-btn or on #sidebar-overlay
Closers == {"close-btn", "sidebar-overlay"}

closeSidebar(target) ==
    /\ Tick
    /\ target \in Closers
    /\ sidebarOpen' = classListRemove(sidebarOpen)
    /\ overlayActive' = classListRemove(overlayActive)
    /\ ev' = EvX("closeSidebar", 0, 0, target, "")
    /\ UNCHANGED <<fixed, globals, viewDom, dropOpts, singleDom, bulkDom,
                   addDom, activeTab, setMode, net, backend>>

\* ------------------------------------------------------------------ backend
IsGet(m) == m.cont \in {"fetchTableData", "counter", "fetchMasterDropdown",
                        "fetchNextPending", "fetchBulkData"}

\* the address a bulk-save id denotes (the first definition sends strings)
AddrOfKey(k) == IF version = 1 THEN parseInt(k) ELSE k

ServeGet(m) ==
    /\ UNCHANGED ops
    /\ m.stage = "req"
    /\ IsGet(m)
    /\ LET l == listAddresses(mapping, m.page, m.q)
           b == searchPendingAddresses(mapping, m.q, m.page)
           r == IF m.cont \in {"fetchTableData", "counter"}
                THEN [m EXCEPT !.rows = l.rows, !.total = l.total, !.pend = l.pend]
                ELSE IF m.cont = "fetchMasterDropdown"
                THEN [m EXCEPT !.masters = srvMasters]
                ELSE IF m.cont = "fetchNextPending"
                THEN [m EXCEPT !.item = nextPendingAddress(mapping)]
                ELSE [m EXCEPT !.hits = b.rows, !.total = b.total]
       IN Reply(m, One([r EXCEPT !.stage = "resp", !.out = "ok"]))
    /\ UNCHANGED <<fixed, globals, viewDom, dropOpts, singleDom, bulkDom,
                   addDom, navDom, backend, ev>>

\* POST accepted: the mutation is applied and {success: true} is returned.
ServePostOk(m) ==
    /\ UNCHANGED ops
    /\ m.stage = "req"
    /\ ~IsGet(m)
    /\ IF m.cont \in {"saveEdit", "saveSinglePending"}
       THEN /\ mapping' = [mapping EXCEPT ![m.addr] = m.loc]
            /\ UNCHANGED srvMasters
            /\ Reply(m, One([m EXCEPT !.stage = "resp", !.out = "ok"]))
       ELSE IF m.cont = "saveBulk"
       THEN /\ mapping' = [a \in Addresses |->
                             IF a \in {AddrOfKey(k) : k \in m.ids}
                             THEN m.loc ELSE mapping[a]]
            /\ UNCHANGED srvMasters
            /\ Reply(m, One([m EXCEPT !.stage = "resp", !.out = "ok",
                                      !.total = Cardinality(m.ids)]))
       ELSE /\ srvMasters' = srvMasters \cup
                               {[name |-> m.loc, zone |-> m.zone, km |-> 0]}
            /\ UNCHANGED mapping
            /\ Reply(m, One([m EXCEPT !.stage = "resp", !.out = "ok"]))
    /\ UNCHANGED <<fixed, globals, viewDom, dropOpts, singleDom, bulkDom,
                   addDom, navDom, ev>>

\* POST refused: {success: false, error} or a non-2xx answer with a detail.
ServePostFail(m, o) ==
    /\ UNCHANGED ops
    /\ m.stage = "req"
    /\ ~IsGet(m)
    /\ o \in {"reject", "http"}
    /\ Reply(m, One([m EXCEPT !.stage = "resp", !.out = o]))
    /\ UNCHANGED <<fixed, globals, viewDom, dropOpts, singleDom, bulkDom,
                   addDom, navDom, backend, ev>>

\* -------------------------------------------------------------------- Next
InNet == BagToSet(net)
LocValues == {""} \cup Names(srvMasters)
ChkValues == {ToStr(a) : a \in Addresses}

\* the backend answering a request
Backend ==
    \/ \E m \in InNet : ServeGet(m)
    \/ \E m \in InNet : ServePostOk(m)
    \/ \E m \in InNet, o \in {"reject", "http"} : ServePostFail(m, o)

\* what every tab shares: the backend, the master list and the view table
Shared ==
    \/ Backend
    \/ \E m \in InNet : \E o \in Outcomes(m) : fetchTableDataDone(m, o)
    \/ \E m \in InNet : \E o \in Outcomes(m) : fetchMasterDropdownDone(m, o)

\* --- the view tab: paging and inline edit
ViewTab ==
    \/ \E d \in {-1, 1} : changePage(d)
    \/ \E id \in Addresses : startEdit(id)
    \/ cancelEdit
    \/ \E id \in Addresses, v \in LocValues : saveEdit(id, v)
    \/ \E q \in Queries : typeViewSearch(q)
    \/ \E m \in InNet : \E o \in Outcomes(m) : saveEditDone(m, o)

NextView == Shared \/ ViewTab

SpecView == Init /\ [][NextView]_vars

\* --- the set tab, single mode
NextSingle ==
    \/ Shared
    \/ switchTab("set")
    \/ setSetMode("single")
    \/ \E v \in LocValues : selectSingleLocality(v)
    \/ updatePreview
    \/ saveSinglePending
    \/ \E m \in InNet : \E o \in Outcomes(m) : fetchNextPendingDone(m, o)
    \/ \E m \in InNet : \E o \in Outcomes(m) : saveSinglePendingDone(m, o)
    \/ \E m \in InNet : \E o \in Outcomes(m) : counterDone(m, o)

SpecSingle == Init /\ [][NextSingle]_vars

\* --- the set tab, bulk mode
NextBulk ==
    \/ Shared
    \/ setSetMode("bulk")
    \/ \E c \in ChkValues : clickBulkChk(c)
    \/ toggleAllBulk
    \/ \E v \in LocValues : selectBulkLocality(v)
    \/ saveBulk
    \/ \E q \in Queries : typeBulkSearch(q)
    \/ \E m \in InNet : \E o \in Outcomes(m) : fetchBulkDataDone(m, o)
    \/ \E m \in InNet : \E o \in Outcomes(m) : saveBulkDone(m, o)

SpecBulk == Init /\ [][NextBulk]_vars

\* --- the add-master tab
AddTab ==
    \/ \E v \in NewNames : typeNewLocName(v)
    \/ \E z \in {""} \cup Zones(srvMasters) : pickNewLocZone(z)
    \/ addNewMaster
    \/ \E m \in InNet : \E o \in Outcomes(m) : addNewMasterDone(m, o)

\* --- the two forms that validate before posting: inline edit, add master
NextForms == Shared \/ ViewTab \/ AddTab

SpecForms == Init /\ [][NextForms]_vars

\* --- the posts of bulk mode (fetch) and of the add-master form (postData)
NextCalls ==
    \/ Shared
    \/ setSetMode("bulk")
    \/ \E c \in ChkValues : clickBulkChk(c)
    \/ \E v \in LocValues : selectBulkLocality(v)
    \/ saveBulk
    \/ \E m \in InNet : \E o \in Outcomes(m) : fetchBulkDataDone(m, o)
    \/ \E m \in InNet : \E o \in Outcomes(m) : saveBulkDone(m, o)
    \/ AddTab

SpecCalls == Init /\ [][NextCalls]_vars

\* --- the sidebar widget, on the page with the add-master form
Sidebar ==
    \/ toggleSidebar
    \/ \E t \in Closers : closeSidebar(t)

NextSidebar == Shared \/ AddTab \/ Sidebar

SpecSidebar == Init /\ [][NextSidebar]_vars

\* --- everything the page offers
Next ==
    \/ Sidebar
    \/ NextSingle
    \/ NextBulk
    \/ ViewTab
    \/ AddTab
    \/ switchTab("view")

Spec == Init /\ [][Next]_vars

\* ================================================================= claims
Editing == {r \in viewTable : r.editing}
Rendered(op) == ev.op = op /\ ev.val = "ok"
ClientState == <<globals, viewDom, dropOpts, singleDom, bulkDom, addDom, navDom>>

\* C1: at most one row of the view table is in Editing state; startEdit(B)
\* makes B the value of editingRowId whatever row was edited before, and a
\* table rendered from a list response shows in Editing exactly the row
\* editingRowId names, so a row edited earlier is back in Display.
C1_SingleEditingRow ==
    /\ Cardinality(Editing) <= 1
    /\ (ev.op = "startEdit" => editingRowId = ev.arg)
    /\ (Rendered("fetchTableData.done") =>
            \A r \in viewTable : r.editing <=> r.id = editingRowId)

\* C1 witness: startEdit(B) has just run while row A was being edited and is
\* still drawn in Editing state.
C1_Witness ==
    /\ ev.op = "startEdit"
    /\ ev.was # NoRow
    /\ ev.was # ev.arg
    /\ \E r \in viewTable : r.id = ev.was /\ r.editing
    /\ \E r \in viewTable : r.id = ev.arg /\ ~r.editing

SelectedIds == {AddrOfKey(k) : k \in bulkSelection}
VisibleIds == {parseInt(c) : c \in bulkRows}

\* C2: every member of bulkSelection is the key of a checkbox of the bulk
\* list displayed now.
C2_SelectionWithinList ==
    \A k \in bulkSelection : \E c \in bulkRows : k = updateBulkKey(c)

\* C2 witness: rows are selected while the response of another bulk fetch,
\* listing other rows, is about to be rendered.
C2_Witness ==
    /\ bulkSelection # {}
    /\ \E m \in InNet : /\ m.cont = "fetchBulkData"
                        /\ m.stage = "resp"
                        /\ m.hits # VisibleIds

\* C3: when fetchBulkData has rendered its result list, bulkSelection is
\* empty and no box is checked, whatever was selected before.
C3_FetchClearsSelection ==
    Rendered("fetchBulkData.done") => bulkSelection = {} /\ bulkChecked = {}

\* C3 witness: a bulk list has just been rendered over a selection of two.
C3_Witness ==
    /\ Rendered("fetchBulkData.done")
    /\ ev.was = 2
    /\ bulkRows # {}

\* C4: after toggleAllBulk the selection denotes exactly the visible rows
\* when the select-all box is checked, and is empty when it is not.
C4_ToggleAll ==
    ev.op = "toggleAllBulk" =>
        IF bulkSelectAll
        THEN /\ SelectedIds = VisibleIds
             /\ Cardinality(bulkSelection) = Cardinality(bulkRows)
             /\ bulkChecked = bulkRows
        ELSE bulkSelection = {} /\ bulkChecked = {}

\* C4 witness: select-all has just been switched off with both of two
\* visible rows selected.
C4_Witness ==
    /\ ev.op = "toggleAllBulk"
    /\ ~bulkSelectAll
    /\ ev.was = 2
    /\ Cardinality(bulkRows) = 2

\* C5: a changePage(delta) step sends one list request for page
\* currentPage + delta when that page lies in 1..totalPages, and otherwise
\* sends nothing and changes nothing of the client's state.
C5_ChangePage ==
    [][ops' # ops /\ ev'.op = "changePage" =>
          IF currentPage + ev'.arg \in 1..totalPages
          THEN /\ net' = net (+) One(ListReq(currentPage + ev'.arg))
               /\ UNCHANGED ClientState
          ELSE UNCHANGED <<net, ClientState, backend>>]_vars

\* C5 witness: changePage(+1) was called on the last of two pages and
\* nothing is in flight.
C5_Witness ==
    /\ ev.op = "changePage"
    /\ ev.arg = 1
    /\ currentPage = 2
    /\ totalPages = 2
    /\ net = EmptyBag

\* the step is the operator action `op`
Acts(op) == ops' # ops /\ ev'.op = op
\* the step sends a request of handler `c`
Sends(c) ==
    \E m \in BagToSet(net') :
        m.cont = c /\ m.stage = "req" /\ CopiesIn(m, net') > CopiesIn(m, net)
\* the step resumes handler `c` with a success response
DeliveredOk(c) ==
    /\ \E m \in InNet : /\ m.cont = c
                        /\ m.stage = "resp"
                        /\ CopiesIn(m, net') < CopiesIn(m, net)
    /\ ev'.val = "ok"

\* C6: saveEdit(id) with a selection sends one save-mapping request for
\* that row and locality and changes nothing else; when its success
\* response arrives editingRowId becomes null, a list request for the
\* current page is sent and the table is left alone; the table only ever
\* changes to the rows of a list response.
C6_SaveEdit ==
    [][/\ (Acts("saveEdit") /\ ev'.val # "" =>
              /\ net' = net (+) One(SaveReq("saveEdit", ev'.arg, ev'.val))
              /\ UNCHANGED ClientState)
       /\ (DeliveredOk("saveEdit") =>
              /\ editingRowId' = NoRow
              /\ \E m \in InNet :
                    net' = (net (-) One(m)) (+) One(ListReq(currentPage))
              /\ UNCHANGED <<viewTable, currentPage, totalPages>>)
       /\ (viewTable' # viewTable =>
              \E m \in InNet :
                  /\ m.cont = "fetchTableData"
                  /\ m.stage = "resp"
                  /\ {[id |-> r.id, locality |-> r.locality] : r \in viewTable'}
                        = m.rows)]_vars

\* C6 witness: the save of an edited row has succeeded: editing is over,
\* the reload is in flight, and the table still shows what it showed.
C6_Witness ==
    /\ ev.op = "saveEdit.done"
    /\ ev.val = "ok"
    /\ editingRowId = NoRow
    /\ \E r \in viewTable : r.id = ev.arg /\ r.editing /\ r.locality # mapping[r.id]
    /\ \E m \in InNet : m.cont = "fetchTableData" /\ m.page = currentPage

\* C7: saveSinglePending with no pending item loaded or no locality chosen
\* sends nothing and raises the alert; otherwise it sends one save-mapping
\* request for the loaded item and the chosen locality; no other step
\* sends such a request.
C7_SaveSinglePendingValidation ==
    [][/\ (Acts("saveSinglePending") =>
              IF currentPendingItem = NoRow \/ singleSel = ""
              THEN net' = net /\ ev'.alert = "Select a locality!"
              ELSE /\ net' = net (+) One(SaveReq("saveSinglePending",
                                                currentPendingItem, singleSel))
                   /\ ev'.alert = "")
       /\ (Sends("saveSinglePending") =>
              /\ Acts("saveSinglePending")
              /\ currentPendingItem # NoRow
              /\ singleSel # "")]_vars

\* C7 witness: a pending item is loaded, no locality is chosen, and
\* saveSinglePending has just raised the alert with nothing in flight.
C7_Witness ==
    /\ ev.op = "saveSinglePending"
    /\ ev.alert = "Select a locality!"
    /\ currentPendingItem # NoRow
    /\ singleSel = ""
    /\ net = EmptyBag

\* C8: saveBulk with an empty selection or no locality sends nothing,
\* raises the alert and leaves the selection as it is; otherwise it sends
\* one bulk-save request carrying the selection and the locality; no other
\* step sends such a request.
C8_SaveBulkValidation ==
    [][/\ (Acts("saveBulk") =>
              IF bulkSelection = {} \/ bulkSel = ""
              THEN /\ net' = net
                   /\ ev'.alert = "Select addresses and locality!"
                   /\ UNCHANGED <<bulkSelection, bulkChecked>>
              ELSE /\ net' = net (+) One(BulkSaveReq(bulkSelection, bulkSel))
                   /\ ev'.alert = ""
                   /\ UNCHANGED bulkSelection)
       /\ (Sends("saveBulk") =>
              /\ Acts("saveBulk")
              /\ bulkSelection # {}
              /\ bulkSel # "")]_vars

\* C8 witness: rows are selected, no locality is chosen, and saveBulk has
\* just raised the alert.
C8_Witness ==
    /\ ev.op = "saveBulk"
    /\ ev.alert = "Select addresses and locality!"
    /\ bulkSelection # {}
    /\ bulkSel = ""

\* C9: saveEdit with an empty selection and addNewMaster with a blank name
\* or zone raise an alert (and, having sent nothing, leave the requests in
\* flight as they were), in both definitions.
C9_ValidationAlerts ==
    [][/\ (Acts("saveEdit") /\ ev'.val = "" => net' = net /\ ev'.alert # "")
       /\ (Acts("addNewMaster") /\ (newLocName = "" \/ newLocZone = "") =>
              net' = net /\ ev'.alert # "")]_vars

\* C10: a saveSinglePending of the head of the backend's pending queue,
\* issued with nothing in flight and followed by no other operator action:
\* when its success response arrives a
\* next-pending request goes out; when that one is answered the loaded
\* item is the address that stood behind the committed one in the pending
\* queue; and when the counter refresh (or the table refresh the second
\* definition adds) is answered the counter shown, if it showed the true
\* count before the commit, shows one less.
Scenario ==
    /\ commit.addr # NoRow
    /\ commit.head = commit.addr
    /\ commit.quiet
    /\ ops = commit.at

C10_QueueProgression ==
    Scenario =>
        /\ (Rendered("saveSinglePending.done") =>
               \/ \E m \in InNet : m.cont = "fetchNextPending"
               \/ Rendered("fetchNextPending.done"))
        /\ (Rendered("fetchNextPending.done") =>
               currentPendingItem = commit.next)
        /\ ((Rendered("saveSinglePending.count") \/ Rendered("fetchTableData.done"))
               /\ commit.cnt = commit.pend
            => globalPendingCount = commit.cnt - 1)

\* C10 witness: the queue was [1, 2] with 1 loaded; the commit and all its
\* follow-up requests are done: 2 is loaded and the counter went 2 -> 1.
C10_Witness ==
    /\ Scenario
    /\ commit.addr = 1
    /\ commit.next = 2
    /\ commit.cnt = 2
    /\ commit.pend = 2
    /\ currentPendingItem = 2
    /\ globalPendingCount = 1
    /\ net = EmptyBag

\* requests of handler `c` in flight in bag `b`
CountOf(c, b) ==
    BagCardinality([m \in {x \in BagToSet(b) : x.cont = c} |-> CopiesIn(m, b)])
\* the step hands handler `c` the outcome of its request
Resumes(c) == CountOf(c, net') < CountOf(c, net)
Mutating == {"saveEdit", "saveSinglePending", "saveBulk", "addNewMaster"}

\* C11: when saveBulk is handed a success response it reports the count
\* the server returned, which is the size of the selection it sent, and
\* issues a bulk search for page 1 of the current search text and a list
\* fetch for page 1 of the view tab, changing nothing else; and when a bulk
\* search for page 1 has been rendered the selection is empty.
C11_BulkCommit ==
    [][/\ (DeliveredOk("saveBulk") =>
              \E m \in InNet :
                  /\ m.cont = "saveBulk"
                  /\ m.stage = "resp"
                  /\ ev'.alert = "Updated count addresses!"
                  /\ ev'.arg = Cardinality(m.ids)
                  /\ net' = (net (-) One(m)) (+) One(BulkReq(1)) (+) One(ListReq(1))
                  /\ UNCHANGED ClientState)
       /\ (DeliveredOk("fetchBulkData") /\ ev'.arg = 1 =>
              bulkSelection' = {} /\ bulkChecked' = {})]_vars

\* C11 witness: a commit of two selected addresses was reported with count
\* 2, the table refresh has come back, and the re-run search has just been
\* rendered: both addresses carry the locality and nothing is selected.
C11_Witness ==
    /\ Rendered("fetchBulkData.done")
    /\ ev.was = 2
    /\ bulkSelection = {}
    /\ Cardinality({a \in Addresses : mapping[a] = "L1"}) = 3
    /\ globalPendingCount = 0
    /\ net = EmptyBag

\* C12: a step that hands a mutating handler a failure (a rejection, an
\* HTTP error or a transport failure) leaves the edit state, the loaded
\* pending item, the selection, the current page and the master cache as
\* they were; in particular the row of a failed saveEdit stays in Editing.
C12_FailureKeepsState ==
    [][\A c \in Mutating :
          Resumes(c) /\ ev'.val # "ok" =>
              UNCHANGED <<editingRowId, currentPendingItem, bulkSelection,
                          currentPage, masterLocalities>>]_vars

\* C13: a mutating handler that is handed a failure raises an alert: the
\* network-error notice for a transport failure, the server's error text
\* for a success-false body, the server's detail for a non-2xx answer.
C13_FailureAlerts ==
    [][\A c \in Mutating :
          Resumes(c) /\ ev'.val # "ok" =>
              ev'.alert = (IF ev'.val = "neterr" THEN "Network Error"
                           ELSE IF ev'.val = "reject" THEN "Error: error"
                           ELSE "Error: detail")]_vars

C15_EmptyQueueClears ==
    Rendered("fetchNextPending.done") /\ ev.arg = NoRow =>
        /\ currentPendingItem = NoRow
        /\ ~pendingCard
        /\ singleSel = ""
        /\ previewZone = "-"
        /\ previewKM = Dash

\* C16: when addNewMaster is handed a success the name field is cleared
\* and one reload of the master list is issued; and from then on every
\* dropdown that is rendered (the edit select of a redrawn table, the
\* single and bulk selects) offers the localities that were added.
C16_FreshDropdowns ==
    [][/\ (DeliveredOk("addNewMaster") =>
              /\ newLocName' = ""
              /\ \E m \in InNet : net' = (net (-) One(m)) (+) One(MasterReq))
       /\ (Resumes("fetchTableData") /\ ev'.val = "ok" /\ editOpts' # {}
            => added \subseteq editOpts')
       /\ (Resumes("fetchMasterDropdown") /\ ev'.val = "ok"
            => added \subseteq dropOpts')]_vars

\* C17: a cancelEdit step sets editingRowId to null, sends no request and
\* changes no address-to-locality mapping.
C17_CancelEdit ==
    [][Acts("cancelEdit") =>
          /\ editingRowId' = NoRow
          /\ net' = net
          /\ mapping' = mapping]_vars

\* the rows a table shows, without their display state
RowsOf(t) == {[id |-> r.id, locality |-> r.locality] : r \in t}

\* C18: whichever list response is handed to fetchTableData, and in
\* whatever order, the table, currentPage and totalPages become those of
\* that response; and they change in no other step: what is displayed is
\* what the response that arrived last carried.
C18_LastRenderWins ==
    [][/\ \A m \in InNet :
              (/\ m.cont = "fetchTableData"
               /\ net' = net (-) One(m)
               /\ ev'.op = "fetchTableData.done"
               /\ ev'.val = "ok")
              => (/\ RowsOf(viewTable') = m.rows
                  /\ currentPage' = m.page
                  /\ totalPages' = m.total)
       /\ (<<viewTable, currentPage, totalPages>>' # <<viewTable, currentPage, totalPages>>
              => Resumes("fetchTableData") /\ ev'.val = "ok")]_vars

\* C18 witness: two list fetches were in flight at once; the response for
\* page 2 has just been rendered and a response for page 1, listing other
\* rows, is still to arrive.
C18_Witness ==
    /\ Rendered("fetchTableData.done")
    /\ ev.arg = 2
    /\ currentPage = 2
    /\ \E m \in InNet : /\ m.cont = "fetchTableData"
                        /\ m.stage = "resp"
                        /\ m.page = 1
                        /\ m.rows # RowsOf(viewTable)

\* C19: an updatePreview step sends no request; it shows the zone and the
\* distance of the cache entry whose name is the selected value (or "-"
\* for a field the entry leaves empty), shows "-" for both when no entry matches,
\* and changes nothing else of the client or the backend.
C19_UpdatePreview ==
    [][Acts("updatePreview") =>
          /\ net' = net
          /\ UNCHANGED <<globals, viewDom, dropOpts, singleSel, pendingCard,
                         bulkDom, addDom, navDom, backend>>
          /\ \A l \in masterLocalities :
                 l.name = singleSel =>
                     /\ \/ previewZone' = l.zone
                        \/ l.zone = "" /\ previewZone' = "-"
                     /\ \/ previewKM' = l.km
                        \/ l.km = 0 /\ previewKM' = Dash
          /\ ((\A l \in masterLocalities : l.name # singleSel) =>
                 previewZone' = "-" /\ previewKM' = Dash)]_vars

\* C19 witness: with a pending address loaded and "L1" selected,
\* updatePreview has just shown the zone and distance of the cache entry.
C19_Witness ==
    /\ ev.op = "updatePreview"
    /\ singleSel = "L1"
    /\ currentPendingItem # NoRow
    /\ previewZone = "Z1"
    /\ previewKM = 5
    /\ net = EmptyBag

\* C20: the view tab's page state always satisfies
\* 1 <= currentPage <= totalPages.
C20_PageInRange == 1 <= currentPage /\ currentPage <= totalPages

\* C21: the step that hands saveEdit the outcome of the save of row A,
\* while another row B is the one being edited, leaves B the row being
\* edited.
C21_SaveEndsOwnEditOnly ==
    [][(/\ Resumes("saveEdit")
        /\ editingRowId # NoRow
        /\ editingRowId # ev'.arg)
          => editingRowId' = editingRowId]_vars

\* C22: no save-mapping request of saveSinglePending is sent for an address
\* that saveSinglePending was already told has been saved.
C22_NoSecondCommit ==
    [][\A m \in BagToSet(net') :
          (/\ m.cont = "saveSinglePending"
           /\ m.stage = "req"
           /\ CopiesIn(m, net') > CopiesIn(m, net))
             => m.addr \notin saved]_vars

\* C23: the sidebar is open exactly when the overlay is active; a click on
\* the hamburger button flips both, and a click on the close button or on
\* the overlay leaves both off.
C23_SidebarOverlay ==
    [][/\ sidebarOpen = overlayActive
       /\ sidebarOpen' = overlayActive'
       /\ (Acts("toggleSidebar") =>
              /\ sidebarOpen' = ~sidebarOpen
              /\ overlayActive' = ~overlayActive)
       /\ (Acts("closeSidebar") => ~sidebarOpen' /\ ~overlayActive')
       /\ (<<sidebarOpen, overlayActive>>' # <<sidebarOpen, overlayActive>> =>
              Acts("toggleSidebar") \/ Acts("closeSidebar"))]_vars

\* C23 witness: after four clicks, the last of them on the hamburger
\* button while the sidebar was open, sidebar and overlay are both off.
C23_Witness ==
    /\ ev.op = "toggleSidebar"
    /\ ops = 4
    /\ ~sidebarOpen
    /\ ~overlayActive

====
